---- MODULE Spec2Model ----
(***************************************************************************)
(* NED, a terminal text editor (src/main.c): the editor state E, the row   *)
(* and editor operations, the file loader and saver, the key decoder, the  *)
(* viewport recomputation, the status bar, the main loop with its resize   *)
(* flag, and the ways the process ends.                                    *)
(* Bytes are integers 0..255; a row is the sequence of its bytes (the      *)
(* first `length` bytes of row->chars); positions are 0-based as in C.     *)
(***************************************************************************)
EXTENDS Integers, Sequences, FiniteSets, TLC

VARIABLES
    rows,            \* E.rows[0 .. E.num_rows-1], each row its bytes
    cursor_x,        \* E.cursor_x
    cursor_y,        \* E.cursor_y
    row_offset,      \* E.row_offset
    col_offset,      \* E.col_offset
    screen_rows,     \* E.screen_rows
    screen_cols,     \* E.screen_cols
    filename,        \* E.filename, the bytes before its NUL (<<>> when unnamed)
    modified,        \* E.modified
    status_msg,      \* E.status_msg (the format used, without its argument)
    ned_need_resize, \* the resize flag written by on_winch
    pc,              \* position of main: "test", "clear", "query", "refresh", "key";
                     \* "exited" after exit(), "killed" after a fatal signal
    disk,            \* the file named by argv[1]: whether it exists, and its bytes
    term,            \* what TIOCGWINSZ reports now: <<ws_row, ws_col>>
    inp,             \* the bytes the last process_keypress consumed: <<c, s1, s2>>
    pre,             \* rows, cursor and kind of event as they were before that call
    raw_mode,        \* the terminal is in raw mode on the alternate screen
    ab               \* the bytes draw_status_bar appended in the last frame recorded

vars == <<rows, cursor_x, cursor_y, row_offset, col_offset, screen_rows,
          screen_cols, filename, modified, status_msg, ned_need_resize, pc,
          disk, term, inp, pre, raw_mode, ab>>

(* ---------- bounds of the model ---------- *)

MaxRows == 3

MaxChars == 2

MaxFileLen == 2

LoopRows == 11

(* ---------- program constants ---------- *)

MAX_FILENAME == 256

\* sizeof(status) in draw_status_bar
STATUS_SIZE == 160

SCREEN_ROWS == 24

SCREEN_COLS == 80

NUL == 0

LF == 10

CR == 13

CTRL_Q == 17

CTRL_S == 19

ESC == 27

LBRACKET == 91

BACKSPACE == 127

ARROW_UP == 65

ARROW_DOWN == 66

ARROW_RIGHT == 67

ARROW_LEFT == 68

\* read() returned no byte (timeout), or the byte was never asked for
NoByte == -1

\* a path that names no file; FileOf(b) is a file holding the bytes b
\* the file name "f"
NameF == <<102>>

\* strncpy(dst, src, n) and dst[n] = 0: the first n bytes of src
strncpy(src, n) == SubSeq(src, 1, IF Len(src) < n THEN Len(src) ELSE n)

Absent == [exists |-> FALSE, bytes |-> <<>>]

FileOf(b) == [exists |-> TRUE, bytes |-> b]

(* ---------- sequences as C arrays ---------- *)

\* memmove one slot up from index at (0-based), then store x there
InsertAt(s, at, x) ==
    SubSeq(s, 1, at) \o <<x>> \o SubSeq(s, at + 1, Len(s))

\* memmove one slot down onto index at (0-based)
RemoveAt(s, at) ==
    SubSeq(s, 1, at) \o SubSeq(s, at + 2, Len(s))

num_rows(e) == Len(e.rows)

\* E.rows[y]
RowAt(e, y) == e.rows[y + 1]

RECURSIVE TotalChars(_)
TotalChars(rs) ==
    IF rs = <<>> THEN 0 ELSE Len(Head(rs)) + TotalChars(Tail(rs))

(* ---------- Terminal ---------- *)

\* enable_raw_mode returns: tcgetattr and tcsetattr succeeded, the terminal
\* is raw and on the alternate screen, disable_raw_mode is registered
enable_raw_mode == TRUE

\* tcsetattr(&E.orig_termios) and "leave alt screen": no longer raw
disable_raw_mode(raw) == FALSE

\* exit() runs the function registered with atexit
exit(raw) == disable_raw_mode(raw)

\* die restores the terminal itself and calls exit(1)
die(raw) == exit(disable_raw_mode(raw))

(* ---------- Row ops ---------- *)

editor_delete_row(e, at) ==
    IF at < 0 \/ at >= num_rows(e) THEN e
    ELSE LET rs == RemoveAt(e.rows, at)
             n  == Len(rs)
             cy == IF e.cursor_y >= n THEN (IF n # 0 THEN n - 1 ELSE 0)
                   ELSE e.cursor_y
             cx == IF n # 0
                   THEN (IF e.cursor_x > Len(rs[cy + 1]) THEN Len(rs[cy + 1])
                         ELSE e.cursor_x)
                   ELSE 0
         IN  [e EXCEPT !.rows = rs, !.cursor_y = cy, !.cursor_x = cx,
                       !.modified = TRUE]

\* s is the len bytes editor_update_row copies into the new row
editor_insert_row(e, at, s) ==
    IF at < 0 \/ at > num_rows(e) THEN e
    ELSE [e EXCEPT !.rows = InsertAt(@, at, s), !.modified = TRUE]

\* editor_row_insert_char ignoring at: the byte always goes to the end of the row
editor_row_insert_char_at_end(e, y, at, c) ==
    LET row == RowAt(e, y)
    IN  [e EXCEPT !.rows[y + 1] = InsertAt(row, Len(row), c), !.modified = TRUE]

editor_row_insert_char(e, y, at, c) ==
    LET row == RowAt(e, y)
        a   == IF at < 0 \/ at > Len(row) THEN Len(row) ELSE at
    IN  [e EXCEPT !.rows[y + 1] = InsertAt(row, a, c), !.modified = TRUE]

editor_row_delete_char(e, y, at) ==
    IF at < 0 \/ at >= Len(RowAt(e, y)) THEN e
    ELSE [e EXCEPT !.rows[y + 1] = RemoveAt(@, at), !.modified = TRUE]

\* editor_row_append_string copying to the start of the row instead of its end
editor_row_append_string_in_front(e, y, s) ==
    [e EXCEPT !.rows[y + 1] = s \o @, !.modified = TRUE]

editor_row_append_string(e, y, s) ==
    [e EXCEPT !.rows[y + 1] = @ \o s, !.modified = TRUE]

(* ---------- Editor ops ---------- *)

editor_insert_char(e, c) ==
    LET e1 == IF num_rows(e) = 0 THEN editor_insert_row(e, 0, <<>>) ELSE e
        e2 == IF e1.cursor_y = num_rows(e1)
              THEN editor_insert_row(e1, num_rows(e1), <<>>) ELSE e1
        e3 == editor_row_insert_char(e2, e2.cursor_y, e2.cursor_x, c)
    IN  [e3 EXCEPT !.cursor_x = @ + 1]

\* editor_insert_newline with the empty-file case creating one row only
editor_insert_newline_one_row(e) ==
    IF num_rows(e) = 0
    THEN LET e1 == editor_insert_row(e, 0, <<>>)
         IN  [e1 EXCEPT !.cursor_y = 1, !.cursor_x = 0]
    ELSE IF e.cursor_y >= num_rows(e)
    THEN LET e1 == editor_insert_row(e, num_rows(e), <<>>)
         IN  [e1 EXCEPT !.cursor_y = num_rows(e1) - 1, !.cursor_x = 0]
    ELSE IF e.cursor_x = 0
    THEN LET e1 == editor_insert_row(e, e.cursor_y, <<>>)
         IN  [e1 EXCEPT !.cursor_y = @ + 1, !.cursor_x = 0]
    ELSE LET row  == RowAt(e, e.cursor_y)
             tail == SubSeq(row, e.cursor_x + 1, Len(row))
             e1   == editor_insert_row(e, e.cursor_y + 1, tail)
             e2   == [e1 EXCEPT !.rows[e.cursor_y + 1] =
                                    SubSeq(@, 1, e.cursor_x)]
         IN  [e2 EXCEPT !.cursor_y = @ + 1, !.cursor_x = 0]

\* editor_insert_newline with the split forgetting to truncate the current row
editor_insert_newline_no_truncate(e) ==
    IF num_rows(e) = 0
    THEN LET e1 == editor_insert_row(e, 0, <<>>)
             e2 == editor_insert_row(e1, 1, <<>>)
         IN  [e2 EXCEPT !.cursor_y = 1, !.cursor_x = 0]
    ELSE IF e.cursor_y >= num_rows(e)
    THEN LET e1 == editor_insert_row(e, num_rows(e), <<>>)
         IN  [e1 EXCEPT !.cursor_y = num_rows(e1) - 1, !.cursor_x = 0]
    ELSE IF e.cursor_x = 0
    THEN LET e1 == editor_insert_row(e, e.cursor_y, <<>>)
         IN  [e1 EXCEPT !.cursor_y = @ + 1, !.cursor_x = 0]
    ELSE LET row  == RowAt(e, e.cursor_y)
             tail == SubSeq(row, e.cursor_x + 1, Len(row))
             e1   == editor_insert_row(e, e.cursor_y + 1, tail)
         IN  [e1 EXCEPT !.cursor_y = @ + 1, !.cursor_x = 0]

editor_insert_newline(e) ==
    IF num_rows(e) = 0
    THEN LET e1 == editor_insert_row(e, 0, <<>>)
             e2 == editor_insert_row(e1, 1, <<>>)
         IN  [e2 EXCEPT !.cursor_y = 1, !.cursor_x = 0]
    ELSE IF e.cursor_y >= num_rows(e)
    THEN LET e1 == editor_insert_row(e, num_rows(e), <<>>)
         IN  [e1 EXCEPT !.cursor_y = num_rows(e1) - 1, !.cursor_x = 0]
    ELSE IF e.cursor_x = 0
    THEN LET e1 == editor_insert_row(e, e.cursor_y, <<>>)
         IN  [e1 EXCEPT !.cursor_y = @ + 1, !.cursor_x = 0]
    ELSE LET row  == RowAt(e, e.cursor_y)
             tail == SubSeq(row, e.cursor_x + 1, Len(row))
             e1   == editor_insert_row(e, e.cursor_y + 1, tail)
             e2   == [e1 EXCEPT !.rows[e.cursor_y + 1] =
                                    SubSeq(@, 1, e.cursor_x)]
         IN  [e2 EXCEPT !.cursor_y = @ + 1, !.cursor_x = 0]

\* editor_delete_char reading the length of the previous row after the append
editor_delete_char_late_len(e) ==
    IF num_rows(e) = 0 THEN e
    ELSE IF e.cursor_y >= num_rows(e) THEN e
    ELSE IF e.cursor_x = 0 /\ e.cursor_y = 0 THEN e
    ELSE IF e.cursor_x > 0
    THEN LET e1 == editor_row_delete_char(e, e.cursor_y, e.cursor_x - 1)
         IN  [e1 EXCEPT !.cursor_x = @ - 1]
    ELSE LET prev == e.cursor_y - 1
             e1 == editor_row_append_string(e, prev, RowAt(e, e.cursor_y))
             e2 == editor_delete_row(e1, e1.cursor_y)
         IN  [e2 EXCEPT !.cursor_y = prev, !.cursor_x = Len(RowAt(e1, prev))]

\* editor_delete_char that removes the first row when Backspace is pressed
\* at (0, 0) on an empty row
editor_delete_char_first_row(e) ==
    IF num_rows(e) = 0 THEN e
    ELSE IF e.cursor_y >= num_rows(e) THEN e
    ELSE IF e.cursor_x = 0 /\ e.cursor_y = 0
    THEN (IF RowAt(e, 0) = <<>> THEN editor_delete_row(e, 0) ELSE e)
    ELSE IF e.cursor_x > 0
    THEN LET e1 == editor_row_delete_char(e, e.cursor_y, e.cursor_x - 1)
         IN  [e1 EXCEPT !.cursor_x = @ - 1]
    ELSE LET prev     == e.cursor_y - 1
             prev_len == Len(RowAt(e, prev))
             e1 == editor_row_append_string(e, prev, RowAt(e, e.cursor_y))
             e2 == editor_delete_row(e1, e1.cursor_y)
         IN  [e2 EXCEPT !.cursor_y = prev, !.cursor_x = prev_len]

editor_delete_char(e) ==
    IF num_rows(e) = 0 THEN e
    ELSE IF e.cursor_y >= num_rows(e) THEN e
    ELSE IF e.cursor_x = 0 /\ e.cursor_y = 0 THEN e
    ELSE IF e.cursor_x > 0
    THEN LET e1 == editor_row_delete_char(e, e.cursor_y, e.cursor_x - 1)
         IN  [e1 EXCEPT !.cursor_x = @ - 1]
    ELSE LET prev     == e.cursor_y - 1
             prev_len == Len(RowAt(e, prev))
             e1 == editor_row_append_string(e, prev, RowAt(e, e.cursor_y))
             e2 == editor_delete_row(e1, e1.cursor_y)
         IN  [e2 EXCEPT !.cursor_y = prev, !.cursor_x = prev_len]

(* ---------- Input ---------- *)

\* editor_move_cursor without the final clamp of cursor_x to the row's length
editor_move_cursor_no_clamp(e, key) ==
    IF num_rows(e) = 0 THEN e
    ELSE LET n == num_rows(e)
         IN  CASE key = ARROW_UP ->
                    IF e.cursor_y > 0
                    THEN [e EXCEPT !.cursor_y = @ - 1] ELSE e
               [] key = ARROW_DOWN ->
                    IF e.cursor_y < n - 1
                    THEN [e EXCEPT !.cursor_y = @ + 1] ELSE e
               [] key = ARROW_LEFT ->
                    IF e.cursor_x > 0
                    THEN [e EXCEPT !.cursor_x = @ - 1]
                    ELSE IF e.cursor_y > 0
                    THEN [e EXCEPT !.cursor_y = @ - 1,
                                   !.cursor_x = Len(RowAt(e, e.cursor_y - 1))]
                    ELSE e
               [] key = ARROW_RIGHT ->
                    IF e.cursor_y < n /\ e.cursor_x < Len(RowAt(e, e.cursor_y))
                    THEN [e EXCEPT !.cursor_x = @ + 1]
                    ELSE IF e.cursor_y < n - 1
                    THEN [e EXCEPT !.cursor_y = @ + 1, !.cursor_x = 0]
                    ELSE e
               [] OTHER -> e

\* editor_move_cursor where Left at column 0 stays on the row
editor_move_cursor_no_wrap(e, key) ==
    IF num_rows(e) = 0 THEN e
    ELSE LET n == num_rows(e)
             hasrow == e.cursor_y < n
             e1 == CASE key = ARROW_UP ->
                          IF e.cursor_y > 0
                          THEN [e EXCEPT !.cursor_y = @ - 1] ELSE e
                      [] key = ARROW_DOWN ->
                          IF e.cursor_y < n - 1
                          THEN [e EXCEPT !.cursor_y = @ + 1] ELSE e
                      [] key = ARROW_LEFT ->
                          IF e.cursor_x > 0
                          THEN [e EXCEPT !.cursor_x = @ - 1]
                          ELSE e
                      [] key = ARROW_RIGHT ->
                          IF hasrow /\ e.cursor_x < Len(RowAt(e, e.cursor_y))
                          THEN [e EXCEPT !.cursor_x = @ + 1]
                          ELSE IF e.cursor_y < n - 1
                          THEN [e EXCEPT !.cursor_y = @ + 1, !.cursor_x = 0]
                          ELSE e
                      [] OTHER -> e
             rowlen == IF e1.cursor_y >= n THEN 0 ELSE Len(RowAt(e1, e1.cursor_y))
         IN  IF e1.cursor_x > rowlen THEN [e1 EXCEPT !.cursor_x = rowlen] ELSE e1

editor_move_cursor(e, key) ==
    IF num_rows(e) = 0 THEN e
    ELSE LET n == num_rows(e)
             hasrow == e.cursor_y < n
             e1 == CASE key = ARROW_UP ->
                          IF e.cursor_y > 0
                          THEN [e EXCEPT !.cursor_y = @ - 1] ELSE e
                      [] key = ARROW_DOWN ->
                          IF e.cursor_y < n - 1
                          THEN [e EXCEPT !.cursor_y = @ + 1] ELSE e
                      [] key = ARROW_LEFT ->
                          IF e.cursor_x > 0
                          THEN [e EXCEPT !.cursor_x = @ - 1]
                          ELSE IF e.cursor_y > 0
                          THEN [e EXCEPT !.cursor_y = @ - 1,
                                         !.cursor_x = Len(RowAt(e, e.cursor_y - 1))]
                          ELSE e
                      [] key = ARROW_RIGHT ->
                          IF hasrow /\ e.cursor_x < Len(RowAt(e, e.cursor_y))
                          THEN [e EXCEPT !.cursor_x = @ + 1]
                          ELSE IF e.cursor_y < n - 1
                          THEN [e EXCEPT !.cursor_y = @ + 1, !.cursor_x = 0]
                          ELSE e
                      [] OTHER -> e
             rowlen == IF e1.cursor_y >= n THEN 0 ELSE Len(RowAt(e1, e1.cursor_y))
         IN  IF e1.cursor_x > rowlen THEN [e1 EXCEPT !.cursor_x = rowlen] ELSE e1

\* c, s1, s2: what the three read() calls return, NoByte for a timeout
read_key(c, s1, s2) ==
    IF c = NoByte THEN -1
    ELSE IF c # ESC THEN c
    ELSE IF s1 = NoByte THEN ESC
    ELSE IF s1 # LBRACKET THEN ESC
    ELSE IF s2 = NoByte THEN ESC
    ELSE IF s2 \in {ARROW_UP, ARROW_DOWN, ARROW_RIGHT, ARROW_LEFT} THEN s2
    ELSE ESC

(* ---------- File I/O ---------- *)

\* the while loop of open_file: drop every trailing '\n' and '\r'
RECURSIVE StripEol(_)
StripEol(line) ==
    IF Len(line) > 0 /\ line[Len(line)] \in {LF, CR}
    THEN StripEol(SubSeq(line, 1, Len(line) - 1))
    ELSE line

\* getline: the number of bytes up to and including the first '\n', or all
RECURSIVE getline(_)
getline(bytes) ==
    IF bytes = <<>> THEN 0
    ELSE IF Head(bytes) = LF THEN 1
    ELSE 1 + getline(Tail(bytes))

\* the rows open_file appends while reading a stream of bytes
RECURSIVE ReadRows(_)
ReadRows(bytes) ==
    IF bytes = <<>> THEN <<>>
    ELSE LET len == getline(bytes)
         IN  <<StripEol(SubSeq(bytes, 1, len))>>
                 \o ReadRows(SubSeq(bytes, len + 1, Len(bytes)))

\* what printf's %s writes of row->chars: the bytes before the first NUL
RECURSIVE CString(_)
CString(row) ==
    IF row = <<>> \/ Head(row) = NUL THEN <<>>
    ELSE <<Head(row)>> \o CString(Tail(row))

\* the bytes the for loop of save_file writes
RECURSIVE WriteRows(_)
WriteRows(rs) ==
    IF rs = <<>> THEN <<>>
    ELSE CString(Head(rs)) \o <<LF>> \o WriteRows(Tail(rs))

\* open_file(path) on a fresh editor: path is <<>> when argc = 1
open_file(path, file) ==
    IF path = <<>> \/ ~file.exists
    THEN [rows |-> <<>>, modified |-> FALSE, status_msg |-> "New file"]
    ELSE [rows |-> ReadRows(file.bytes), modified |-> FALSE,
          status_msg |-> "Opened"]

\* save_file: fopen_ok is whether fopen(E.filename, "w") succeeds; lost is the
\* number of bytes at the end of the output that never reach the file because
\* fprintf or fclose fails (0 when every write succeeds). The results of
\* fprintf and fclose are not looked at.
save_file(e, name, file, msg, fopen_ok, lost) ==
    LET out == WriteRows(e.rows)
    IN  IF name = <<>>
        THEN [modified |-> e.modified, disk |-> file,
              status_msg |-> "ERROR: No filename"]
        ELSE IF ~fopen_ok
        THEN [modified |-> e.modified, disk |-> file, status_msg |-> "I/O error"]
        ELSE [modified |-> FALSE,
              disk |-> FileOf(SubSeq(out, 1, Len(out) - lost)),
              status_msg |-> "Saved"]

(* ---------- Screen ---------- *)

get_window_size(ioctl_ret, ws) ==
    IF ioctl_ret = -1 \/ ws[2] = 0
    THEN [rows |-> SCREEN_ROWS, cols |-> SCREEN_COLS, ret |-> -1]
    ELSE [rows |-> ws[1], cols |-> ws[2], ret |-> 0]

\* editor_scroll computed from offsets (0, 0) instead of the stored ones
editor_scroll_from_zero(cx, cy, ro, co, srows, scols) ==
    LET ro1 == IF cy < 0 THEN cy ELSE 0
        ro2 == IF cy >= ro1 + (srows - 2) THEN cy - (srows - 2) + 1 ELSE ro1
        co1 == IF cx < 0 THEN cx ELSE 0
        co2 == IF cx >= co1 + scols THEN cx - scols + 1 ELSE co1
    IN  [row_offset |-> ro2, col_offset |-> co2]

editor_scroll(cx, cy, ro, co, srows, scols) ==
    LET ro1 == IF cy < ro THEN cy ELSE ro
        ro2 == IF cy >= ro1 + (srows - 2) THEN cy - (srows - 2) + 1 ELSE ro1
        co1 == IF cx < co THEN cx ELSE co
        co2 == IF cx >= co1 + scols THEN cx - scols + 1 ELSE co1
    IN  [row_offset |-> ro2, col_offset |-> co2]

\* ab_append(ab, s, len): the first len bytes at s are appended (realloc is
\* taken to succeed; when it fails nothing is appended)
ab_append(buf, s, len) == buf \o SubSeq(s, 1, len)

\* the bytes of a string literal
ReverseVideo == <<ESC, LBRACKET, 55, 109>>

ResetCrLf == <<ESC, LBRACKET, 109, CR, LF>>

NoName == <<91, 78, 111, 32, 78, 97, 109, 101, 93>>

\* what "[%s] %s" formats: '[', the name or "[No Name]", "] ", "*" if modified
StatusText(name, mod) ==
    <<LBRACKET>> \o (IF name # <<>> THEN name ELSE NoName) \o <<93, 32>>
        \o (IF mod THEN <<42>> ELSE <<>>)

\* the memory at status[0 ..]: the bytes snprintf stored, their NUL, and
\* behind them, up to n bytes in all, whatever the stack holds (junk), in
\* the array and past its end
StatusMemory(text, n, junk) ==
    LET stored == IF Len(text) < STATUS_SIZE THEN Len(text) ELSE STATUS_SIZE - 1
    IN  [j \in 1..n |-> IF j <= stored THEN text[j]
                        ELSE IF j = stored + 1 THEN NUL
                        ELSE junk]

\* draw_status_bar appending to an empty buffer
draw_status_bar(name, mod, scols, junk) ==
    LET ab1  == ab_append(<<>>, ReverseVideo, 3)
        text == StatusText(name, mod)
        len0 == Len(text)
        len  == IF len0 > scols THEN scols ELSE len0
        ab2  == ab_append(ab1, StatusMemory(text, len, junk), len)
        ab3  == ab2 \o [j \in 1..(scols - len) |-> 32]
    IN  ab_append(ab3, ResetCrLf, 5)

(* ---------- the editor state as one record ---------- *)

E == [rows |-> rows, cursor_x |-> cursor_x, cursor_y |-> cursor_y,
      modified |-> modified]

KindOf(i) ==
    LET k == read_key(i[1], i[2], i[3])
    IN  IF k = CR THEN "enter"
        ELSE IF k \in {ARROW_UP, ARROW_DOWN, ARROW_RIGHT, ARROW_LEFT} THEN "other"
        ELSE IF k >= 32 /\ k < 127 THEN "char"
        ELSE "other"

InBounds(rs) == Len(rs) <= MaxRows /\ TotalChars(rs) <= MaxChars

\* the Document stays within the bounds: no byte is typed into a full
\* Document, no line is added to one of MaxRows lines
MayGrow(i) ==
    /\ KindOf(i) = "char" => TotalChars(rows) < MaxChars
    /\ KindOf(i) = "enter" =>
           Len(rows) + (IF rows = <<>> THEN 2 ELSE 1) <= MaxRows

(* ---------- process_keypress ---------- *)

ProcessKeypress(i, fopen_ok, lost) ==
    LET k == read_key(i[1], i[2], i[3])
        e == E
        e1 == IF k < 0 THEN e
              ELSE CASE k = CR -> editor_insert_newline(e)
                     [] k = CTRL_Q -> e
                     [] k = CTRL_S -> e
                     [] k = BACKSPACE -> editor_delete_char(e)
                     [] k \in {ARROW_UP, ARROW_DOWN, ARROW_RIGHT, ARROW_LEFT} ->
                            editor_move_cursor(e, k)
                     [] OTHER -> IF k >= 32 /\ k < 127
                                 THEN editor_insert_char(e, k) ELSE e
        sv == IF k = CTRL_S
              THEN save_file(e, filename, disk, status_msg, fopen_ok, lost)
              ELSE [modified |-> e1.modified, disk |-> disk,
                    status_msg |-> status_msg]
    IN  /\ pc = "key"
        /\ rows' = e1.rows
        /\ cursor_x' = e1.cursor_x
        /\ cursor_y' = e1.cursor_y
        /\ modified' = sv.modified
        /\ disk' = sv.disk
        /\ status_msg' = sv.status_msg
        /\ pc' = IF k = CTRL_Q THEN "exited" ELSE "test"
        /\ inp' = i
        /\ pre' = [rows |-> rows, cursor_x |-> cursor_x, cursor_y |-> cursor_y,
                   kind |-> KindOf(inp)]
        /\ raw_mode' = IF k = CTRL_Q THEN exit(raw_mode) ELSE raw_mode
        /\ UNCHANGED <<row_offset, col_offset, screen_rows, screen_cols,
                       filename, ned_need_resize, term, ab>>

(* ---------- main ---------- *)

\* a loop that tests the flag only when a key arrived
SkipResize_input_only ==
    /\ pc = "test"
    /\ (ned_need_resize = 0 \/ inp = <<NoByte, NoByte, NoByte>>)
    /\ pc' = "refresh"
    /\ UNCHANGED <<rows, cursor_x, cursor_y, row_offset, col_offset,
                   screen_rows, screen_cols, filename, modified, status_msg,
                   ned_need_resize, disk, term, inp, pre, raw_mode, ab>>

\* if (ned_need_resize) is false
SkipResize ==
    /\ pc = "test"
    /\ ned_need_resize = 0
    /\ pc' = "refresh"
    /\ UNCHANGED <<rows, cursor_x, cursor_y, row_offset, col_offset,
                   screen_rows, screen_cols, filename, modified, status_msg,
                   ned_need_resize, disk, term, inp, pre, raw_mode, ab>>

\* if (ned_need_resize) is true
SeeResize ==
    /\ pc = "test"
    /\ ned_need_resize # 0
    /\ pc' = "clear"
    /\ UNCHANGED <<rows, cursor_x, cursor_y, row_offset, col_offset,
                   screen_rows, screen_cols, filename, modified, status_msg,
                   ned_need_resize, disk, term, inp, pre, raw_mode, ab>>

\* ned_need_resize = 0;
ClearResize ==
    /\ pc = "clear"
    /\ ned_need_resize' = 0
    /\ pc' = "query"
    /\ UNCHANGED <<rows, cursor_x, cursor_y, row_offset, col_offset,
                   screen_rows, screen_cols, filename, modified, status_msg,
                   disk, term, inp, pre, raw_mode, ab>>

\* get_window_size(&E.screen_rows, &E.screen_cols);
QueryWindowSize(ioctl_ret) ==
    LET ws == get_window_size(ioctl_ret, term)
    IN  /\ pc = "query"
        /\ screen_rows' = ws.rows
        /\ screen_cols' = ws.cols
        /\ pc' = "refresh"
        /\ UNCHANGED <<rows, cursor_x, cursor_y, row_offset, col_offset,
                       filename, modified, status_msg, ned_need_resize, disk,
                       term, inp, pre, raw_mode, ab>>

\* refresh_screen(): editor_scroll, then one frame is written
RefreshScreen ==
    LET o == editor_scroll(cursor_x, cursor_y, row_offset, col_offset,
                           screen_rows, screen_cols)
    IN  /\ pc = "refresh"
        /\ row_offset' = o.row_offset
        /\ col_offset' = o.col_offset
        /\ pc' = "key"
        /\ UNCHANGED <<rows, cursor_x, cursor_y, screen_rows, screen_cols,
                       filename, modified, status_msg, ned_need_resize, disk,
                       term, inp, pre, raw_mode, ab>>

\* a handler that queries the window size itself
OnWinch_requery(ws) ==
    /\ pc # "exited"
    /\ term # ws
    /\ term' = ws
    /\ ned_need_resize' = 1
    /\ screen_rows' = get_window_size(0, ws).rows
    /\ screen_cols' = get_window_size(0, ws).cols
    /\ UNCHANGED <<rows, cursor_x, cursor_y, row_offset, col_offset,
                   filename, modified, status_msg, pc, disk, inp, pre, raw_mode, ab>>

\* the terminal is resized to ws and SIGWINCH runs on_winch
OnWinch(ws) ==
    /\ pc # "exited"
    /\ term # ws
    /\ term' = ws
    /\ ned_need_resize' = 1
    /\ UNCHANGED <<rows, cursor_x, cursor_y, row_offset, col_offset,
                   screen_rows, screen_cols, filename, modified, status_msg,
                   pc, disk, inp, pre, raw_mode, ab>>

\* main up to the loop: init_editor, then open_file(argv[1]) or the help text
Startup(path, file, ws, ioctl_ret) ==
    LET sz == get_window_size(ioctl_ret, ws)
        o  == open_file(path, file)
    IN  /\ cursor_x = 0
        /\ cursor_y = 0
        /\ row_offset = 0
        /\ col_offset = 0
        /\ screen_rows = sz.rows
        /\ screen_cols = sz.cols
        /\ filename = strncpy(path, MAX_FILENAME - 1)
        /\ rows = o.rows
        /\ modified = o.modified
        /\ status_msg = IF path = <<>> THEN "Help" ELSE o.status_msg
        /\ ned_need_resize = 0
        /\ pc = "test"
        /\ disk = file
        /\ term = ws
        /\ inp = <<NoByte, NoByte, NoByte>>
        /\ pre = [rows |-> o.rows, cursor_x |-> 0, cursor_y |-> 0,
                  kind |-> "other"]
        /\ raw_mode = enable_raw_mode
        /\ ab = <<>>

(* ---------- the inputs of the model ---------- *)

RECURSIVE SeqsUpTo(_, _)
SeqsUpTo(S, n) ==
    IF n = 0 THEN {<<>>}
    ELSE LET shorter == SeqsUpTo(S, n - 1)
         IN  shorter \cup {Append(s, x) : s \in shorter, x \in S}

\* text files: an empty one, and one of two lines whose last has no newline
TextFiles == {<<>>, <<97, LF, 98>>}

\* one read_key: a timeout, a single byte, or an escape sequence
Inputs ==
    {<<c, NoByte, NoByte>> :
        c \in {NoByte, CR, CTRL_Q, CTRL_S, BACKSPACE, 97, 98, ARROW_UP}}
    \cup {<<ESC, LBRACKET, s2>> :
            s2 \in {ARROW_UP, ARROW_DOWN, ARROW_RIGHT, ARROW_LEFT, 51}}

\* ned, ned f with no file f, or ned f with a text file f; a 24x80 terminal
Init ==
    \/ Startup(<<>>, Absent, <<SCREEN_ROWS, SCREEN_COLS>>, 0)
    \/ Startup(NameF, Absent, <<SCREEN_ROWS, SCREEN_COLS>>, 0)
    \/ \E b \in TextFiles :
           /\ InBounds(ReadRows(b))
           /\ Startup(NameF, FileOf(b), <<SCREEN_ROWS, SCREEN_COLS>>, 0)

\* a key event; the file cannot be opened for writing
KeyEvent ==
    \E i \in Inputs :
        /\ MayGrow(i)
        /\ ProcessKeypress(i, FALSE, 0)

Next == SkipResize \/ RefreshScreen \/ KeyEvent

Spec == Init /\ [][Next]_vars

(* ---------- files of any bytes, saved and read again ---------- *)

FileBytes == {97, LF, CR, NUL}

Files == SeqsUpTo(FileBytes, MaxFileLen)

FileInputs ==
    {<<c, NoByte, NoByte>> : c \in {CR, CTRL_S, CTRL_Q, BACKSPACE, 98}}
    \cup {<<ESC, LBRACKET, ARROW_RIGHT>>}

\* ned f with a file f of any bytes; a 24x80 terminal
InitFile ==
    \E b \in Files :
        /\ InBounds(ReadRows(b))
        /\ Startup(NameF, FileOf(b), <<SCREEN_ROWS, SCREEN_COLS>>, 0)

\* a key event; opening the file for writing succeeds or fails, and every
\* write succeeds
FileKeyEvent ==
    \E i \in FileInputs, fopen_ok \in BOOLEAN :
        /\ (read_key(i[1], i[2], i[3]) # CTRL_S => fopen_ok)
        /\ MayGrow(i)
        /\ ProcessKeypress(i, fopen_ok, 0)

NextFile == SkipResize \/ RefreshScreen \/ FileKeyEvent

SpecFile == InitFile /\ [][NextFile]_vars

(* ---------- saves that succeed, cannot open the file, or cannot write ---------- *)

SaveInputs ==
    {<<c, NoByte, NoByte>> : c \in {NoByte, CR, CTRL_S, CTRL_Q, BACKSPACE, 98}}
    \cup {<<ESC, LBRACKET, ARROW_LEFT>>}

\* a key event; a save finds no filename, cannot open the file, loses the
\* last bytes of its output to a failing write, or writes everything
SaveKeyEvent ==
    \E i \in SaveInputs, fopen_ok \in BOOLEAN,
       lost \in 0..Len(WriteRows(rows)) :
        /\ (read_key(i[1], i[2], i[3]) # CTRL_S => (fopen_ok /\ lost = 0))
        /\ (~fopen_ok => lost = 0)
        /\ MayGrow(i)
        /\ ProcessKeypress(i, fopen_ok, lost)

NextSave == SkipResize \/ RefreshScreen \/ SaveKeyEvent

\* ned, ned f with no file f, or ned f with a text file f; a 24x80 terminal
SpecSave == Init /\ [][NextSave]_vars

(* ---------- keys that arrive as escape sequences ---------- *)

\* the bytes a terminal sends for a key, written in one piece: 'a',
\* Backspace, the four arrows, Escape, Alt-a, Delete (ESC [ 3 ~), F1
\* (ESC O P) and Ctrl-Up (ESC [ 1 ; 5 A)
EscKeys ==
    {<<97>>, <<BACKSPACE>>, <<ESC>>, <<ESC, 97>>,
     <<ESC, LBRACKET, 51, 126>>, <<ESC, 79, 80>>,
     <<ESC, LBRACKET, 49, 59, 53, 65>>}
    \cup {<<ESC, LBRACKET, s2>> :
            s2 \in {ARROW_UP, ARROW_DOWN, ARROW_RIGHT, ARROW_LEFT}}

\* the next three bytes waiting in the terminal, NoByte where there is none
Window(bytes) ==
    [j \in 1..3 |-> IF j <= Len(bytes) THEN bytes[j] ELSE NoByte]

\* the number of bytes read_key takes from the terminal
Consumed(i) ==
    IF i[1] = NoByte THEN 0
    ELSE IF i[1] # ESC THEN 1
    ELSE IF i[2] = NoByte THEN 1
    ELSE IF i[2] # LBRACKET THEN 2
    ELSE IF i[3] = NoByte THEN 2
    ELSE 3

\* the bytes of a key that lie behind the three read_key could see
Beyond(i) ==
    IF \E k \in EscKeys : Len(k) > 3 /\ Window(k) = i
    THEN LET k == CHOOSE k \in EscKeys : Len(k) > 3 /\ Window(k) = i
         IN  SubSeq(k, 4, Len(k))
    ELSE <<>>

\* the bytes still waiting in the terminal after read_key has seen i
Pending(i) ==
    LET seen == SelectSeq(i, LAMBDA b : b # NoByte)
    IN  SubSeq(seen, Consumed(i) + 1, Len(seen)) \o Beyond(i)

\* a key event: read_key sees the bytes left of the last key, or, when none
\* is left, the bytes of the next key or a timeout
EscKeyEvent ==
    \E i \in {Window(k) : k \in EscKeys \cup {<<>>, Pending(inp)}} :
        /\ (Pending(inp) # <<>> => i = Window(Pending(inp)))
        /\ MayGrow(i)
        /\ ProcessKeypress(i, TRUE, 0)

NextEsc == SkipResize \/ RefreshScreen \/ EscKeyEvent

\* ned, ned f with no file f, or ned f with a text file f; a 24x80 terminal
SpecEsc == Init /\ [][NextEsc]_vars

(* ---------- the ways the process ends ---------- *)

ExitInputs ==
    {<<c, NoByte, NoByte>> : c \in {NoByte, CR, CTRL_Q, BACKSPACE, 97}}

\* a key event; the file cannot be opened for writing
ExitKeyEvent ==
    \E i \in ExitInputs :
        /\ MayGrow(i)
        /\ ProcessKeypress(i, FALSE, 0)

\* realloc returns NULL while a key is inserted: die("realloc")
Die ==
    /\ pc = "key"
    /\ pc' = "exited"
    /\ raw_mode' = die(raw_mode)
    /\ UNCHANGED <<rows, cursor_x, cursor_y, row_offset, col_offset,
                   screen_rows, screen_cols, filename, modified, status_msg,
                   ned_need_resize, disk, term, inp, pre, ab>>

\* a signal other than SIGWINCH is delivered (SIGTERM, SIGHUP, ...): no
\* handler is installed for it, the default action ends the process, and
\* the functions registered with atexit do not run
Killed ==
    /\ pc \notin {"exited", "killed"}
    /\ pc' = "killed"
    /\ UNCHANGED <<rows, cursor_x, cursor_y, row_offset, col_offset,
                   screen_rows, screen_cols, filename, modified, status_msg,
                   ned_need_resize, disk, term, inp, pre, raw_mode, ab>>

NextExit == SkipResize \/ RefreshScreen \/ ExitKeyEvent \/ Die \/ Killed

\* ned, ned f with no file f, or ned f with a text file f; a 24x80 terminal
SpecExit == Init /\ [][NextExit]_vars

(* ---------- the status bar of a frame ---------- *)

\* a name of n bytes
NameOfLen(n) == [j \in 1..n |-> 102]

\* lengths of argv[1], up to one that E.filename cannot hold
PathLens == {1, 2, 155, 156, 157, 255, 256}

\* terminal widths, below and above the size of the status buffer
StatusWinSizes ==
    {<<SCREEN_ROWS, c>> : c \in {2, 5, SCREEN_COLS, 159, 160, 161, 200}}

\* bytes the stack may hold behind the formatted text
JunkBytes == {NUL, 88}

\* ned, or ned with a new file of some name, on a terminal of some width
InitStatus ==
    \E ws \in StatusWinSizes :
        \/ Startup(<<>>, Absent, ws, 0)
        \/ \E n \in PathLens : Startup(NameOfLen(n), Absent, ws, 0)

\* refresh_screen(), the bytes of the status bar recorded
RefreshFrame ==
    LET o == editor_scroll(cursor_x, cursor_y, row_offset, col_offset,
                           screen_rows, screen_cols)
    IN  /\ pc = "refresh"
        /\ row_offset' = o.row_offset
        /\ col_offset' = o.col_offset
        /\ \E junk \in JunkBytes :
               ab' = draw_status_bar(filename, modified, screen_cols, junk)
        /\ pc' = "key"
        /\ UNCHANGED <<rows, cursor_x, cursor_y, screen_rows, screen_cols,
                       filename, modified, status_msg, ned_need_resize, disk,
                       term, inp, pre, raw_mode>>

StatusInputs ==
    {<<c, NoByte, NoByte>> : c \in {NoByte, 97, BACKSPACE}}

\* a key event
StatusKeyEvent ==
    \E i \in StatusInputs :
        /\ MayGrow(i)
        /\ ProcessKeypress(i, TRUE, 0)

NextStatus == SkipResize \/ RefreshFrame \/ StatusKeyEvent

SpecStatus == InitStatus /\ [][NextStatus]_vars

(* ---------- the main loop on a terminal that is resized ---------- *)

\* a file of n lines "aa"
RECURSIVE LinesFile(_)
LinesFile(n) ==
    IF n = 0 THEN <<>> ELSE <<97, 97, LF>> \o LinesFile(n - 1)

\* window sizes TIOCGWINSZ reports: <<ws_row, ws_col>>
WinSizes == {<<2, 2>>, <<3, 2>>, <<5, 2>>, <<5, 0>>}

ArrowInputs ==
    {<<NoByte, NoByte, NoByte>>}
    \cup {<<ESC, LBRACKET, s2>> :
            s2 \in {ARROW_UP, ARROW_DOWN, ARROW_RIGHT, ARROW_LEFT}}

\* ned f with a file f of LoopRows lines, on a terminal of any of the sizes
InitLoop ==
    \E ws \in WinSizes, ioctl_ret \in {0, -1} :
        Startup(NameF, FileOf(LinesFile(LoopRows)), ws, ioctl_ret)

\* a key event: an arrow key or a timeout
ArrowEvent ==
    \E i \in ArrowInputs : ProcessKeypress(i, TRUE, 0)

Query == \E ioctl_ret \in {0, -1} : QueryWindowSize(ioctl_ret)

Resize == \E ws \in WinSizes : OnWinch(ws)

NextLoop ==
    \/ SkipResize
    \/ SeeResize
    \/ ClearResize
    \/ Query
    \/ RefreshScreen
    \/ ArrowEvent
    \/ Resize

SpecLoop == InitLoop /\ [][NextLoop]_vars

\* one step of main: every statement of the loop terminates, and read()
\* returns after a tenth of a second at the latest (VMIN = 0, VTIME = 1)
LoopStep ==
    \/ SkipResize
    \/ SeeResize
    \/ ClearResize
    \/ Query
    \/ RefreshScreen
    \/ ArrowEvent

\* the loop keeps running; the terminal may or may not be resized again
SpecLoopFair == InitLoop /\ [][NextLoop]_vars /\ WF_vars(LoopStep)

(* ---------- the last key event, as the properties read it ---------- *)

LastKey == read_key(inp[1], inp[2], inp[3])

\* the byte typed alone, not as part of an escape sequence
TypedAlone(b) == inp = <<b, NoByte, NoByte>>

\* row r (0-based) of a sequence of rows, empty when there is no such row
RowOr(rs, r) == IF r < Len(rs) THEN rs[r + 1] ELSE <<>>

(* ---------- properties ---------- *)

\* C1: after every key event the cursor row is within [0, num_lines]; on an
\* existing row the column is within [0, length of that row]; on the row past
\* the last line the column is 0.
C1_CursorBounds ==
    /\ 0 <= cursor_y /\ cursor_y <= Len(rows)
    /\ cursor_y < Len(rows) =>
           0 <= cursor_x /\ cursor_x <= Len(rows[cursor_y + 1])
    /\ cursor_y = Len(rows) => cursor_x = 0

\* a vertical move has landed on a shorter row and the column was clamped
C1_Witness ==
    /\ LastKey \in {ARROW_UP, ARROW_DOWN}
    /\ cursor_y # pre.cursor_y
    /\ cursor_x < pre.cursor_x
    /\ cursor_x = Len(rows[cursor_y + 1])

\* C3: Enter on a Document of zero lines gives exactly two empty lines with the
\* cursor at (1, 0), and the cursor invariant holds.
C3_EnterOnEmpty ==
    (LastKey = CR /\ pre.rows = <<>>) =>
        /\ rows = << <<>>, <<>> >>
        /\ cursor_y = 1
        /\ cursor_x = 0
        /\ C1_CursorBounds

\* Enter was pressed in a Document loaded from an existing, empty file
C3_Witness ==
    /\ LastKey = CR
    /\ pre.rows = <<>>
    /\ filename # <<>>
    /\ status_msg = "Opened"
    /\ Len(rows) = 2

\* C4: Enter at (row, col) on an existing row: row keeps its first col bytes,
\* row+1 holds the bytes from col on, the rows before keep their place, the
\* rows after move down by one, and the cursor is at (row+1, 0).
C4_SplitLine ==
    (LastKey = CR /\ pre.cursor_y < Len(pre.rows)) =>
        LET r   == pre.cursor_y
            c   == pre.cursor_x
            old == pre.rows
        IN  /\ Len(rows) = Len(old) + 1
            /\ rows[r + 1] = SubSeq(old[r + 1], 1, c)
            /\ rows[r + 2] = SubSeq(old[r + 1], c + 1, Len(old[r + 1]))
            /\ \A j \in 1..r : rows[j] = old[j]
            /\ \A j \in (r + 2)..Len(old) : rows[j + 1] = old[j]
            /\ cursor_y = r + 1
            /\ cursor_x = 0

\* a row was split strictly inside
C4_Witness ==
    /\ LastKey = CR
    /\ pre.cursor_y < Len(pre.rows)
    /\ pre.cursor_x > 0
    /\ pre.cursor_x < Len(pre.rows[pre.cursor_y + 1])

\* C5: Backspace at (row, 0) with row > 0: row-1 becomes its old bytes followed
\* by those of row, row is removed, the other rows are unchanged and in order,
\* and the cursor is at (row-1, old length of row-1); ["ab","cd"] with the
\* cursor at (1,0) becomes ["abcd"] with the cursor at (0,2).
C5_Merge ==
    /\ (LastKey = BACKSPACE /\ pre.cursor_x = 0 /\ pre.cursor_y > 0
            /\ pre.cursor_y < Len(pre.rows)) =>
          LET r   == pre.cursor_y
              old == pre.rows
          IN  /\ Len(rows) = Len(old) - 1
              /\ rows[r] = old[r] \o old[r + 1]
              /\ \A j \in 1..(r - 1) : rows[j] = old[j]
              /\ \A j \in (r + 2)..Len(old) : rows[j - 1] = old[j]
              /\ cursor_y = r - 1
              /\ cursor_x = Len(old[r])
    /\ LET e == editor_delete_char([rows |-> << <<97, 98>>, <<99, 100>> >>,
                                    cursor_x |-> 0, cursor_y |-> 1,
                                    modified |-> FALSE])
       IN  /\ e.rows = << <<97, 98, 99, 100>> >>
           /\ e.cursor_y = 0
           /\ e.cursor_x = 2

\* two non-empty rows were merged
C5_Witness ==
    /\ LastKey = BACKSPACE
    /\ pre.cursor_x = 0
    /\ pre.cursor_y > 0
    /\ pre.cursor_y < Len(pre.rows)
    /\ Len(pre.rows[pre.cursor_y]) > 0
    /\ Len(pre.rows[pre.cursor_y + 1]) > 0

\* a process_keypress step that reads Backspace
BackspaceStep == pc = "key" /\ pc' # "key" /\ read_key(inp'[1], inp'[2], inp'[3]) = BACKSPACE

\* C6: a byte inserted at (row, col) and then deleted by Backspace at
\* (row, col+1): the row has its old content again (an empty row when the
\* Document had no line yet), no other row changed, and the cursor is back at
\* (row, col).
C6_InsertDeleteInverse ==
    [][(BackspaceStep /\ KindOf(inp) = "char") =>
          /\ rows' = IF pre.rows = <<>> THEN << <<>> >> ELSE pre.rows
          /\ cursor_x' = pre.cursor_x
          /\ cursor_y' = pre.cursor_y]_vars

\* a byte was inserted in front of other bytes of a row and deleted again
C6_Witness ==
    /\ LastKey = BACKSPACE
    /\ pre.kind = "char"
    /\ cursor_y < Len(rows)
    /\ cursor_x < Len(rows[cursor_y + 1])
    /\ Len(pre.rows[cursor_y + 1]) = Len(rows[cursor_y + 1]) + 1

\* C7 as stated: Enter and then Backspace leave the Document's sequence of
\* lines identical to what it was before the Enter, for every Document.
C7_SplitMergeAnyDocument ==
    [][(BackspaceStep /\ KindOf(inp) = "enter") => rows' = pre.rows]_vars

\* C7 amended: Enter and then Backspace leave a Document of at least one line
\* identical to what it was before the Enter, with the cursor back where it
\* was; a Document of zero lines becomes one empty line.
C7_SplitMerge ==
    [][(BackspaceStep /\ KindOf(inp) = "enter") =>
          /\ rows' = IF pre.rows = <<>> THEN << <<>> >> ELSE pre.rows
          /\ cursor_x' = pre.cursor_x
          /\ cursor_y' = pre.cursor_y]_vars

\* a row was split strictly inside and merged again
C7_Witness ==
    /\ LastKey = BACKSPACE
    /\ pre.kind = "enter"
    /\ pre.cursor_x = 0
    /\ cursor_x > 0
    /\ cursor_y < Len(rows)
    /\ cursor_x < Len(rows[cursor_y + 1])

\* C9: a byte 32..126 typed alone is inserted at the old cursor column of the
\* cursor's row (created first when the Document has no line), the rest of
\* the row is kept around it and the column advances by one; a directional
\* event comes only from ESC [ A/B/C/D.
C9_PrintableInserted ==
    /\ \A b \in 32..126 :
          TypedAlone(b) =>
              /\ cursor_y = pre.cursor_y
              /\ cursor_x = pre.cursor_x + 1
              /\ cursor_y < Len(rows)
              /\ RowOr(rows, cursor_y) =
                    InsertAt(RowOr(pre.rows, pre.cursor_y), pre.cursor_x, b)
    /\ LastKey \in {ARROW_UP, ARROW_DOWN, ARROW_RIGHT, ARROW_LEFT} =>
          (inp[1] = ESC /\ inp[2] = LBRACKET)

\* C8: a Document loaded from a file and edited, once saved, is read back from
\* the saved file with the same number of lines and the same bytes in each.
C8_SaveReopen ==
    (LastKey = CTRL_S /\ status_msg = "Saved") =>
        open_file(filename, disk).rows = rows

\* the cursor is inside the window of rows starting at ro, of columns at co
RowInView(ro) == ro <= cursor_y /\ cursor_y < ro + (screen_rows - 2)

ColInView(co) == co <= cursor_x /\ cursor_x < co + screen_cols

\* C2: after every viewport recomputation, whatever the cursor, the previous
\* offsets and the terminal size, the cursor's row is within [row_offset,
\* row_offset + terminal_rows - 2) and its column within [col_offset,
\* col_offset + visible_cols).
C2_CursorInViewport ==
    pc = "key" => RowInView(row_offset) /\ ColInView(col_offset)

Dist(a, b) == IF a >= b THEN a - b ELSE b - a

\* the state after k presses of Down, a frame drawn after each, in a Document
\* of 11 lines on a terminal of 5 rows (3 visible), from row 0 and offset 0
RECURSIVE AfterDowns(_)
AfterDowns(k) ==
    IF k = 0
    THEN [cursor_y |-> 0,
          row_offset |-> editor_scroll(0, 0, 0, 0, 5, SCREEN_COLS).row_offset,
          by_one |-> TRUE]
    ELSE LET p  == AfterDowns(k - 1)
             e  == editor_move_cursor(
                       [rows |-> ReadRows(LinesFile(11)), cursor_x |-> 0,
                        cursor_y |-> p.cursor_y, modified |-> FALSE],
                       ARROW_DOWN)
             ro == editor_scroll(e.cursor_x, e.cursor_y, p.row_offset, 0,
                                 5, SCREEN_COLS).row_offset
         IN  [cursor_y |-> e.cursor_y, row_offset |-> ro,
              by_one |-> p.by_one /\ Dist(ro, p.row_offset) <= 1]

C10_Scenario ==
    /\ AfterDowns(10).cursor_y = 10
    /\ AfterDowns(10).row_offset = 8
    /\ AfterDowns(10).by_one

\* row_offset' (col_offset') is row_offset when the cursor is in view, and
\* otherwise the offset nearest to it that brings the cursor into view
MinimalRows ==
    IF RowInView(row_offset) THEN row_offset' = row_offset
    ELSE /\ RowInView(row_offset')
         /\ \A o \in 0..Len(rows) :
                RowInView(o) =>
                    Dist(row_offset', row_offset) <= Dist(o, row_offset)

MinimalCols ==
    IF ColInView(col_offset) THEN col_offset' = col_offset
    ELSE /\ ColInView(col_offset')
         /\ \A o \in 0..cursor_x :
                ColInView(o) =>
                    Dist(col_offset', col_offset) <= Dist(o, col_offset)

\* C10: each viewport recomputation leaves an offset unchanged when the cursor
\* is inside the window and otherwise moves it by the least amount that brings
\* the cursor into view; with 3 visible rows, Down pressed ten times from row 0
\* moves row_offset by at most 1 a step and ends with row_offset = 8.
C10_MinimalScroll ==
    /\ [][(pc = "refresh" /\ pc' = "key") => (MinimalRows /\ MinimalCols)]_vars
    /\ C10_Scenario

\* C10 where the terminal has at least 3 rows
C10_MinimalScrollTallTerminal ==
    /\ [][(pc = "refresh" /\ pc' = "key" /\ screen_rows >= 3)
             => (MinimalRows /\ MinimalCols)]_vars
    /\ C10_Scenario

(* ---------- the viewport and the frames before it ---------- *)

\* the offsets of the frame drawn once the cursor has come to (x, y) from a
\* start at (0, 0) on a terminal of srows x scols, by Down y times and then
\* Right x times, a frame drawn after each key
RECURSIVE OffsetsFromTop(_, _, _, _)
OffsetsFromTop(x, y, srows, scols) ==
    IF x = 0 /\ y = 0 THEN editor_scroll(0, 0, 0, 0, srows, scols)
    ELSE IF x > 0
    THEN LET p == OffsetsFromTop(x - 1, y, srows, scols)
         IN  editor_scroll(x, y, p.row_offset, p.col_offset, srows, scols)
    ELSE LET p == OffsetsFromTop(0, y - 1, srows, scols)
         IN  editor_scroll(0, y, p.row_offset, p.col_offset, srows, scols)

ScrolledRows ==
    LET vis == screen_rows - 2
    IN  IF cursor_y < row_offset
        THEN (IF vis <= 0 THEN cursor_y - vis + 1 ELSE cursor_y)
        ELSE IF cursor_y >= row_offset + vis THEN cursor_y - vis + 1
        ELSE row_offset

ScrolledCols ==
    IF cursor_x < col_offset
    THEN (IF screen_cols <= 0 THEN cursor_x - screen_cols + 1 ELSE cursor_x)
    ELSE IF cursor_x >= col_offset + screen_cols
    THEN cursor_x - screen_cols + 1
    ELSE col_offset

HandlerStep == term' # term

\* main tests the flag, clears it or queries the window size
HandlingStep == pc \in {"test", "clear", "query"} /\ pc' # pc

\* C12: the signal handler writes nothing but the resize flag, and the
\* handling of a resize in the main loop (flag test, flag clear, window-size
\* query) changes only the stored terminal dimensions and the flag: the
\* Document's lines, the cursor, the dirty flag and the filename are unchanged.
C12_ResizeFrame ==
    [][/\ HandlerStep =>
             /\ ned_need_resize' = 1
             /\ UNCHANGED <<rows, cursor_x, cursor_y, row_offset, col_offset,
                            screen_rows, screen_cols, filename, modified,
                            status_msg, disk, pc>>
       /\ HandlingStep =>
             /\ UNCHANGED <<rows, cursor_x, cursor_y, modified, filename>>
             /\ UNCHANGED <<row_offset, col_offset, status_msg, disk>>
             /\ (pc # "query" => UNCHANGED <<screen_rows, screen_cols>>)]_vars

\* a resize has been handled while the cursor was inside the Document: the
\* stored dimensions are the new ones, and the cursor is two rows or more
\* below the window the last frame was drawn with
C12_Witness ==
    /\ pc = "refresh"
    /\ ned_need_resize = 0
    /\ <<screen_rows, screen_cols>> = term
    /\ screen_rows >= 3
    /\ cursor_x > 0
    /\ cursor_y >= row_offset + (screen_rows - 2) + 1

\* the stored dimensions
Stored == <<screen_rows, screen_cols>>

\* what a window-size query stores for a terminal of size t: the size, or
\* 24x80 when the ioctl fails or reports no columns
Reports(t) ==
    {<<get_window_size(r, t).rows, get_window_size(r, t).cols>> : r \in {0, -1}}

SaveStep ==
    pc = "key" /\ pc' # "key" /\ read_key(inp'[1], inp'[2], inp'[3]) = CTRL_S

\* the save has succeeded: there is a filename, fopen did not fail ("I/O
\* error" is set nowhere else), and the file holds every line of the Document
SaveSucceeds ==
    /\ SaveStep
    /\ filename # <<>>
    /\ status_msg' # "I/O error"
    /\ disk' = FileOf(WriteRows(rows))

\* C14: a Document just loaded or created has the dirty flag false; every
\* step that changes the Document's lines leaves the flag true; the flag goes
\* from true to false only in a save that succeeds, and a save that succeeds
\* leaves it false.
C14_DirtyFlag ==
    /\ ~open_file(<<>>, Absent).modified
    /\ ~open_file(NameF, Absent).modified
    /\ \A b \in TextFiles : ~open_file(NameF, FileOf(b)).modified
    /\ [][rows' # rows => modified']_vars
    /\ [][(modified /\ ~modified') => SaveSucceeds]_vars
    /\ [][SaveSucceeds => ~modified']_vars

\* C15: a save that does not succeed (no filename, the file cannot be opened
\* for writing, or a write fails) sets a failure message, leaves the dirty
\* flag, the Document and the cursor as they were, and the editor goes on to
\* the next key.
C15_SaveFailure ==
    [][(SaveStep /\ ~SaveSucceeds) =>
          /\ status_msg' \in {"ERROR: No filename", "I/O error"}
          /\ modified' = modified
          /\ UNCHANGED <<rows, cursor_x, cursor_y>>
          /\ pc' = "test"]_vars

(* ---------- escape sequences ---------- *)

\* a process_keypress step
KeyStep == pc = "key" /\ pc' # "key"

\* C16: when the last byte of a key that starts with ESC and is none of
\* ESC [ A, ESC [ B, ESC [ C, ESC [ D has been read, the Document and the
\* cursor are what they were before its first byte was read (and so is the
\* dirty flag, for a key read in one go). Stated for the keys read in one or
\* two calls of read_key.
C16_EscapeNoOp ==
    [][/\ (KeyStep /\ Pending(inp) = <<>> /\ inp'[1] = ESC
              /\ read_key(inp'[1], inp'[2], inp'[3]) = ESC
              /\ Pending(inp') = <<>>) =>
            UNCHANGED <<rows, cursor_x, cursor_y, modified>>
       /\ (KeyStep /\ inp[1] = ESC /\ Pending(inp) # <<>>
              /\ Pending(inp') = <<>>) =>
            /\ rows' = pre.rows
            /\ cursor_x' = pre.cursor_x
            /\ cursor_y' = pre.cursor_y]_vars

(* ---------- the terminal when the process has ended ---------- *)

\* C17: however the process has ended (Ctrl-Q, die, or a signal that is not
\* caught), the terminal has its original attributes again and has left the
\* alternate screen.
C17_TerminalRestored ==
    pc \in {"exited", "killed"} => ~raw_mode

(* ---------- cursor movement ---------- *)

Min(a, b) == IF a <= b THEN a ELSE b

Max(a, b) == IF a >= b THEN a ELSE b

\* where the movement rules put the cursor, from where it is: <<row, col>>
MoveTarget(key) ==
    LET n == Len(rows)
        len(r) == Len(rows[r + 1])
        y == cursor_y
        x == cursor_x
    IN  IF n = 0 THEN <<y, x>>
        ELSE CASE key = ARROW_UP ->
                    <<Max(y - 1, 0), Min(x, len(Max(y - 1, 0)))>>
               [] key = ARROW_DOWN ->
                    <<Min(y + 1, n - 1), Min(x, len(Min(y + 1, n - 1)))>>
               [] key = ARROW_LEFT ->
                    IF x > 0 THEN <<y, x - 1>>
                    ELSE IF y > 0 THEN <<y - 1, len(y - 1)>>
                    ELSE <<y, x>>
               [] key = ARROW_RIGHT ->
                    IF x < len(y) THEN <<y, x + 1>>
                    ELSE IF y + 1 < n THEN <<y + 1, 0>>
                    ELSE <<y, x>>

\* C18: Up and Down change the row by exactly 1, clamped to [0, num_lines-1],
\* and do nothing when there is no line; Left at column 0 goes to the end of
\* the previous line if there is one, Right at the end of a line goes to
\* column 0 of the next line if there is one, and otherwise they stay; after
\* a move the column is at most the length of the cursor's line; no move
\* changes the Document's lines or the dirty flag.
C18_CursorMovement ==
    [][\A key \in {ARROW_UP, ARROW_DOWN, ARROW_LEFT, ARROW_RIGHT} :
          (KeyStep /\ read_key(inp'[1], inp'[2], inp'[3]) = key) =>
              /\ <<cursor_y', cursor_x'>> = MoveTarget(key)
              /\ (cursor_y' < Len(rows) =>
                      cursor_x' <= Len(rows[cursor_y' + 1]))
              /\ UNCHANGED <<rows, modified>>]_vars

\* Left at column 0 has moved the cursor to the end of a non-empty line above,
\* in a Document that has been edited
C18_Witness ==
    /\ LastKey = ARROW_LEFT
    /\ pre.cursor_x = 0
    /\ pre.cursor_y > 0
    /\ cursor_y = pre.cursor_y - 1
    /\ cursor_x > 0
    /\ modified

(* ---------- the status bar ---------- *)

\* the first n bytes of text, or text followed by spaces up to n bytes
Fit(text, n) ==
    [j \in 1..n |-> IF j <= Len(text) THEN text[j] ELSE 32]

\* C19: the status bar of every frame is ESC [ 7 m, then exactly
\* terminal_cols bytes that are the formatted status text (the filename or
\* the placeholder, and the modified glyph iff dirty) cut to the width or
\* padded with spaces, then ESC [ m and CR LF.
C19_StatusBar ==
    pc = "key" =>
        ab = ReverseVideo \o Fit(StatusText(filename, modified), screen_cols)
                 \o ResetCrLf

(* ---------- a Document with lines keeps at least one ---------- *)

\* C20: a Document that had a line before a key event has one after it;
\* the cursor is on the row past the last line only while there is no line;
\* so Enter never finds the cursor past the end of a Document that has lines.
C20_NeverEmptyAgain ==
    /\ Len(pre.rows) >= 1 => Len(rows) >= 1
    /\ cursor_y = Len(rows) => Len(rows) = 0
    /\ ~(pc = "key" /\ Len(rows) > 0 /\ cursor_y >= Len(rows))

\* Backspace was pressed on an edited Document of one empty line, and the
\* line is still there
C20_Witness ==
    /\ LastKey = BACKSPACE
    /\ pre.rows = << <<>> >>
    /\ rows = << <<>> >>
    /\ modified
    /\ cursor_x = 0
    /\ cursor_y = 0

====
